---- MODULE Spec2Model ----
(***************************************************************************)
(* Model of src/main.cpp: a benchmark driver that, for each dataset, runs  *)
(* linearExecution, then parallelWithMutex and parallelWithCAS for each    *)
(* thread count.  Threads interleave at the granularity of one shared      *)
(* access (a dataset read, a mutex operation, a plain read or write of the *)
(* shared accumulator, one atomic operation); thread-local computation is  *)
(* folded into the step of the shared access before it.  Every             *)
(* atomic object has a single modification order and the hardware is       *)
(* cache-coherent, so an atomic load returns the current value of its      *)
(* object.  compare_exchange_weak may fail spuriously.  TLC's integers are *)
(* 32-bit signed, as the code's int: arithmetic that would leave that      *)
(* range is an evaluation error instead of a value.                        *)
(***************************************************************************)
EXTENDS Integers, Sequences, FiniteSets, TLC

\* <climits>: the value count/maxValue accumulators start from.
INT_MIN == -2147483647 - 1

\* Bounds of the model.
MaxLen == 3
MaxThreads == 3

\* Saturation point of the history counter casTries.
MaxTries == 2

\* Elements a dataset is drawn from: rand() % 1001 yields 0..1000; two
\* multiples of 5 (one of them 0) and one non-multiple.
Values == {0, 3, 10}

\* main's configuration lists, scaled to the bounds.
matrixSizes == [k \in 1..(MaxLen + 1) |-> k - 1]
threadCounts == [k \in 1..MaxThreads |-> k]

\* C++ remainder (truncating towards zero) for a positive divisor.
CRem(a, b) == IF a >= 0 THEN a % b ELSE -((-a) % b)

\* The test `value % 5 == 0`.
Divisible(v) == CRem(v, 5) = 0

\* One iteration of the scan loop body on the running count.
ScanCount(v, c) == IF Divisible(v) THEN c + 1 ELSE c

\* One iteration of the scan loop body on the running maximum.
ScanMax(v, m) == IF Divisible(v) /\ v > m THEN v ELSE m

RECURSIVE LinearFrom(_, _, _, _)
LinearFrom(d, k, c, m) ==
    IF k > Len(d) THEN <<c, m>>
    ELSE LinearFrom(d, k + 1, ScanCount(d[k], c), ScanMax(d[k], m))

\* linearExecution: count = 0, maxValue = INT_MIN, then the range-for.
linearExecution(d) == LinearFrom(d, 1, 0, INT_MIN)

\* Mutant of ChunkSize: the quotient is rounded up.
ChunkSizeCeil(L, T) == (L + T - 1) \div T

\* int chunkSize = data.size() / numThreads;
ChunkSize(L, T) == L \div T

\* int start = t * chunkSize;
SectionStart(tt, cs) == tt * cs

\* Mutant of SectionEnd: the last worker's range ends like the others'.
SectionEndNoRemainder(tt, T, L, cs) == SectionStart(tt, cs) + cs

\* int end = (t == numThreads - 1) ? data.size() : start + chunkSize;
SectionEnd(tt, T, L, cs) ==
    IF tt = T - 1 THEN L ELSE SectionStart(tt, cs) + cs

VARIABLES
    sizeIdx,      \* main: position in matrixSizes
    data,         \* main: the dataset (1-based here, 0-based in the code)
    mainpc,       \* main / reducer: position of the orchestrating thread
    mode,         \* main: which reducer the current run calls
    tIdx,         \* main: position in threadCounts
    count,        \* main's count (the lock-based shared count, by reference)
    maxValue,     \* main's maxValue (the lock-based shared max, by reference)
    out,          \* rows printed so far (size, threads, mode)
    lastResult,   \* count and max columns of the latest row of this dataset
    numThreads,   \* reducer parameter
    chunkSize,    \* reducer local
    t,            \* reducer: spawn loop index = threads.size()
    j,            \* reducer: number of threads joined so far
    mtx,          \* parallelWithMutex: owner of the mutex, or Free
    atomicCount,  \* parallelWithCAS
    atomicMax,    \* parallelWithCAS
    wpc,          \* worker: position
    wstart,       \* worker: parameter start
    wend,         \* worker: parameter end
    wi,           \* worker: loop index i
    secCount,     \* worker: local count of its section
    secMax,       \* worker: local max of its section
    tmp,          \* lock-based worker: value read by `localCount += count`
    currentMax,   \* lock-free worker: local currentMax
    acq,          \* history: lock acquisitions of each worker
    casTries,     \* history: compare_exchange_weak calls of each worker
    casFails,     \* history: calls that failed because atomicMax had changed
    reads         \* history: dataset elements read in the current run

mainVars == <<sizeIdx, data, mode, tIdx, out, lastResult>>
callVars == <<numThreads, chunkSize>>
sharedVars == <<count, maxValue, mtx, atomicCount, atomicMax>>
workerVars == <<wpc, wstart, wend, wi, secCount, secMax, tmp, currentMax>>
histVars == <<acq, casTries, casFails>>
vars == <<mainVars, mainpc, callVars, t, j, sharedVars, workerVars, histVars, reads>>

Free == -1
NoWorkers == [w \in {} |-> 0]
Workers == DOMAIN wpc
Datasets(n) == [1..n -> Values]

Init ==
    /\ sizeIdx = 1
    /\ data = <<>>
    /\ mainpc = "gen"
    /\ mode = "Linear"
    /\ tIdx = 1
    /\ count = 0
    /\ maxValue = INT_MIN
    /\ out = <<>>
    /\ lastResult = <<>>
    /\ numThreads = 1
    /\ chunkSize = 0
    /\ t = 0
    /\ j = 0
    /\ mtx = Free
    /\ atomicCount = 0
    /\ atomicMax = INT_MIN
    /\ wpc = NoWorkers
    /\ wstart = NoWorkers
    /\ wend = NoWorkers
    /\ wi = NoWorkers
    /\ secCount = NoWorkers
    /\ secMax = NoWorkers
    /\ tmp = NoWorkers
    /\ currentMax = NoWorkers
    /\ acq = NoWorkers
    /\ casTries = NoWorkers
    /\ casFails = NoWorkers
    /\ reads = 0

\* The state a reducer call starts its worker bookkeeping from.
NoThreads ==
    /\ t' = 0
    /\ j' = 0
    /\ wpc' = NoWorkers
    /\ wstart' = NoWorkers
    /\ wend' = NoWorkers
    /\ wi' = NoWorkers
    /\ secCount' = NoWorkers
    /\ secMax' = NoWorkers
    /\ tmp' = NoWorkers
    /\ currentMax' = NoWorkers
    /\ acq' = NoWorkers
    /\ casTries' = NoWorkers
    /\ casFails' = NoWorkers
    /\ reads' = 0

\* main, lines 122-126: vector<int> data(matrixSize) filled from rand() % 1001.
Generate ==
    /\ mainpc = "gen"
    /\ \E d \in Datasets(matrixSizes[sizeIdx]) : data' = d
    /\ mainpc' = "call"
    /\ mode' = "Linear"
    /\ lastResult' = <<>>
    /\ UNCHANGED <<sizeIdx, tIdx, out, callVars, t, j, sharedVars, workerVars,
                   histVars, reads>>

\* main, lines 129-134: count = 0; maxValue = INT_MIN; linearExecution(...).
LinearRun ==
    /\ mainpc = "call"
    /\ mode = "Linear"
    /\ count' = linearExecution(data)[1]
    /\ maxValue' = linearExecution(data)[2]
    /\ reads' = Len(data)
    /\ mainpc' = "print"
    /\ UNCHANGED <<mainVars, callVars, t, j, mtx, atomicCount, atomicMax,
                   workerVars, histVars>>

\* Mutant of MutexEntry: count and maxValue keep the values they hold.
MutexEntryNoReset ==
    /\ mainpc = "call"
    /\ mode = "Mutex"
    /\ numThreads' = threadCounts[tIdx]
    /\ mtx' = Free
    /\ chunkSize' = ChunkSize(Len(data), threadCounts[tIdx])
    /\ NoThreads
    /\ mainpc' = "spawn"
    /\ UNCHANGED <<mainVars, count, maxValue, atomicCount, atomicMax>>

\* main, lines 139-142, and parallelWithMutex, lines 52-56.
MutexEntry ==
    /\ mainpc = "call"
    /\ mode = "Mutex"
    /\ numThreads' = threadCounts[tIdx]
    /\ count' = 0
    /\ maxValue' = INT_MIN
    /\ mtx' = Free
    /\ chunkSize' = ChunkSize(Len(data), threadCounts[tIdx])
    /\ NoThreads
    /\ mainpc' = "spawn"
    /\ UNCHANGED <<mainVars, atomicCount, atomicMax>>

\* Mutant of CASEntry: atomicMax starts from 0 instead of INT_MIN.
CASEntryZeroMax ==
    /\ mainpc = "call"
    /\ mode = "CAS"
    /\ numThreads' = threadCounts[tIdx]
    /\ count' = 0
    /\ maxValue' = INT_MIN
    /\ atomicCount' = 0
    /\ atomicMax' = 0
    /\ chunkSize' = ChunkSize(Len(data), threadCounts[tIdx])
    /\ NoThreads
    /\ mainpc' = "spawn"
    /\ UNCHANGED <<mainVars, mtx>>

\* main, lines 150-153, and parallelWithCAS, lines 93-96.
CASEntry ==
    /\ mainpc = "call"
    /\ mode = "CAS"
    /\ numThreads' = threadCounts[tIdx]
    /\ count' = 0
    /\ maxValue' = INT_MIN
    /\ atomicCount' = 0
    /\ atomicMax' = INT_MIN
    /\ chunkSize' = ChunkSize(Len(data), threadCounts[tIdx])
    /\ NoThreads
    /\ mainpc' = "spawn"
    /\ UNCHANGED <<mainVars, mtx>>

Extend(f, w, x) == [u \in (DOMAIN f) \cup {w} |-> IF u = w THEN x ELSE f[u]]

\* Mutant of Spawn: the worker's local max starts from 0 instead of INT_MIN.
SpawnZeroMax ==
    /\ mainpc = "spawn"
    /\ t < numThreads
    /\ wpc' = Extend(wpc, t, "scan")
    /\ wstart' = Extend(wstart, t, SectionStart(t, chunkSize))
    /\ wend' = Extend(wend, t, SectionEnd(t, numThreads, Len(data), chunkSize))
    /\ wi' = Extend(wi, t, SectionStart(t, chunkSize))
    /\ secCount' = Extend(secCount, t, 0)
    /\ secMax' = Extend(secMax, t, 0)
    /\ tmp' = Extend(tmp, t, 0)
    /\ currentMax' = Extend(currentMax, t, INT_MIN)
    /\ acq' = Extend(acq, t, 0)
    /\ casTries' = Extend(casTries, t, 0)
    /\ casFails' = Extend(casFails, t, 0)
    /\ t' = t + 1
    /\ mainpc' = IF t + 1 < numThreads THEN "spawn" ELSE "join"
    /\ UNCHANGED <<mainVars, callVars, j, sharedVars, reads>>

\* The spawn loop, lines 58-62 / 98-102: one emplace_back; the new thread
\* stands at the head of its scan loop with its locals initialised.  After
\* the last one the loop ends and the join loop starts.
Spawn ==
    /\ mainpc = "spawn"
    /\ t < numThreads
    /\ wpc' = Extend(wpc, t, "scan")
    /\ wstart' = Extend(wstart, t, SectionStart(t, chunkSize))
    /\ wend' = Extend(wend, t, SectionEnd(t, numThreads, Len(data), chunkSize))
    /\ wi' = Extend(wi, t, SectionStart(t, chunkSize))
    /\ secCount' = Extend(secCount, t, 0)
    /\ secMax' = Extend(secMax, t, INT_MIN)
    /\ tmp' = Extend(tmp, t, 0)
    /\ currentMax' = Extend(currentMax, t, INT_MIN)
    /\ acq' = Extend(acq, t, 0)
    /\ casTries' = Extend(casTries, t, 0)
    /\ casFails' = Extend(casFails, t, 0)
    /\ t' = t + 1
    /\ mainpc' = IF t + 1 < numThreads THEN "spawn" ELSE "join"
    /\ UNCHANGED <<mainVars, callVars, j, sharedVars, reads>>

\* Mutant of Join: the loop moves on without waiting for the thread.
JoinNoWait ==
    /\ mainpc = "join"
    /\ j < t
    /\ j' = j + 1
    /\ UNCHANGED <<mainVars, mainpc, callVars, t, sharedVars, workerVars,
                   histVars, reads>>

\* The join loop, lines 64-68 / 104-108: th.join() returns once th finished.
Join ==
    /\ mainpc = "join"
    /\ j < t
    /\ wpc[j] = "done"
    /\ j' = j + 1
    /\ UNCHANGED <<mainVars, mainpc, callVars, t, sharedVars, workerVars,
                   histVars, reads>>

\* parallelWithMutex returns after the join loop, line 69.
MutexReturn ==
    /\ mainpc = "join"
    /\ mode = "Mutex"
    /\ j >= t
    /\ mainpc' = "print"
    /\ UNCHANGED <<mainVars, callVars, t, j, sharedVars, workerVars, histVars,
                   reads>>

\* parallelWithCAS, lines 110-112: the two loads after the join loop.
CASReturn ==
    /\ mainpc = "join"
    /\ mode = "CAS"
    /\ j >= t
    /\ count' = atomicCount
    /\ maxValue' = atomicMax
    /\ mainpc' = "print"
    /\ UNCHANGED <<mainVars, callVars, t, j, mtx, atomicCount, atomicMax,
                   workerVars, histVars, reads>>

Row == [size |-> Len(data),
        threads |-> IF mode = "Linear" THEN 0 ELSE numThreads,
        mode |-> mode]

\* Mutant of PrintRow: the lock-free sweep is left out.
PrintRowSkipsCAS ==
    /\ mainpc = "print"
    /\ out' = Append(out, Row)
    /\ lastResult' = <<count, maxValue>>
    /\ IF mode = "Linear" THEN
           /\ mode' = "Mutex" /\ tIdx' = 1 /\ mainpc' = "call"
           /\ UNCHANGED sizeIdx
       ELSE IF tIdx < Len(threadCounts) THEN
           /\ tIdx' = tIdx + 1 /\ mainpc' = "call"
           /\ UNCHANGED <<mode, sizeIdx>>
       ELSE IF sizeIdx < Len(matrixSizes) THEN
           /\ sizeIdx' = sizeIdx + 1 /\ mainpc' = "gen"
           /\ UNCHANGED <<mode, tIdx>>
       ELSE
           /\ mainpc' = "exit"
           /\ UNCHANGED <<mode, tIdx, sizeIdx>>
    /\ UNCHANGED <<data, callVars, t, j, sharedVars, workerVars, histVars,
                   reads>>

\* main, lines 135 / 145 / 156: the row of the run, then the loops advance.
\* The count and max columns of a row are count and maxValue of this state.
PrintRow ==
    /\ mainpc = "print"
    /\ out' = Append(out, Row)
    /\ lastResult' = <<count, maxValue>>
    /\ IF mode = "Linear" THEN
           /\ mode' = "Mutex" /\ tIdx' = 1 /\ mainpc' = "call"
           /\ UNCHANGED sizeIdx
       ELSE IF tIdx < Len(threadCounts) THEN
           /\ tIdx' = tIdx + 1 /\ mainpc' = "call"
           /\ UNCHANGED <<mode, sizeIdx>>
       ELSE IF mode = "Mutex" THEN
           /\ mode' = "CAS" /\ tIdx' = 1 /\ mainpc' = "call"
           /\ UNCHANGED sizeIdx
       ELSE IF sizeIdx < Len(matrixSizes) THEN
           /\ sizeIdx' = sizeIdx + 1 /\ mainpc' = "gen"
           /\ UNCHANGED <<mode, tIdx>>
       ELSE
           /\ mainpc' = "exit"
           /\ UNCHANGED <<mode, tIdx, sizeIdx>>
    /\ UNCHANGED <<data, callVars, t, j, sharedVars, workerVars, histVars,
                   reads>>

\* Saturating increment of a history counter.
Bump(n) == IF n < MaxTries THEN n + 1 ELSE n

\* Mutant of ScanBody: the test is written as an assignment of the
\* remainder, which stores into the element.
ScanBodyWrites(w) ==
    /\ w \in Workers
    /\ wpc[w] = "scan"
    /\ wi[w] < wend[w]
    /\ data' = [data EXCEPT ![wi[w] + 1] = CRem(@, 5)]
    /\ secCount' = [secCount EXCEPT ![w] = ScanCount(data[wi[w] + 1], @)]
    /\ secMax' = [secMax EXCEPT ![w] = ScanMax(data[wi[w] + 1], @)]
    /\ wi' = [wi EXCEPT ![w] = @ + 1]
    /\ reads' = reads + 1
    /\ UNCHANGED <<sizeIdx, mode, tIdx, out, lastResult, mainpc, callVars,
                   t, j, sharedVars, wpc, wstart, wend, tmp, currentMax,
                   histVars>>

\* The scan loop body, lines 35-42 / 75-82, for element data[i].
ScanBody(w) ==
    /\ w \in Workers
    /\ wpc[w] = "scan"
    /\ wi[w] < wend[w]
    /\ secCount' = [secCount EXCEPT ![w] = ScanCount(data[wi[w] + 1], @)]
    /\ secMax' = [secMax EXCEPT ![w] = ScanMax(data[wi[w] + 1], @)]
    /\ wi' = [wi EXCEPT ![w] = @ + 1]
    /\ reads' = reads + 1
    /\ UNCHANGED <<mainVars, mainpc, callVars, t, j, sharedVars, wpc, wstart,
                   wend, tmp, currentMax, histVars>>

\* processSectionWithMutex, lines 35-42: one iteration of the scan loop.
MutexScan(w) ==
    /\ mode = "Mutex"
    /\ ScanBody(w)

\* Mutant of Lock: the mutex is taken without waiting for it to be free.
LockNoWait(w) ==
    /\ w \in Workers
    /\ mode = "Mutex"
    /\ wpc[w] = "scan"
    /\ wi[w] >= wend[w]
    /\ mtx' = w
    /\ acq' = [acq EXCEPT ![w] = Bump(@)]
    /\ wpc' = [wpc EXCEPT ![w] = "add_rd"]
    /\ UNCHANGED <<mainVars, mainpc, callVars, t, j, count, maxValue,
                   atomicCount, atomicMax, wstart, wend, wi, secCount, secMax,
                   tmp, currentMax, casTries, casFails, reads>>

\* Mutant of Lock: the mutex is taken around the scan loop's body, so the
\* merge follows the first iteration of a non-empty section.
LockInsideLoop(w) ==
    /\ w \in Workers
    /\ mode = "Mutex"
    /\ wpc[w] = "scan"
    /\ wi[w] >= wend[w] \/ wi[w] > wstart[w]
    /\ mtx = Free
    /\ mtx' = w
    /\ acq' = [acq EXCEPT ![w] = Bump(@)]
    /\ wpc' = [wpc EXCEPT ![w] = "add_rd"]
    /\ UNCHANGED <<mainVars, mainpc, callVars, t, j, count, maxValue,
                   atomicCount, atomicMax, wstart, wend, wi, secCount, secMax,
                   tmp, currentMax, casTries, casFails, reads>>

\* processSectionWithMutex, line 43: lock_guard<mutex> lock(mtx), reached when
\* the scan loop has ended; blocks while the mutex is owned.
Lock(w) ==
    /\ w \in Workers
    /\ mode = "Mutex"
    /\ wpc[w] = "scan"
    /\ wi[w] >= wend[w]
    /\ mtx = Free
    /\ mtx' = w
    /\ acq' = [acq EXCEPT ![w] = Bump(@)]
    /\ wpc' = [wpc EXCEPT ![w] = "add_rd"]
    /\ UNCHANGED <<mainVars, mainpc, callVars, t, j, count, maxValue,
                   atomicCount, atomicMax, wstart, wend, wi, secCount, secMax,
                   tmp, currentMax, casTries, casFails, reads>>

\* line 44, localCount += count: the read of the shared count.
AddRead(w) ==
    /\ w \in Workers
    /\ wpc[w] = "add_rd"
    /\ tmp' = [tmp EXCEPT ![w] = count]
    /\ wpc' = [wpc EXCEPT ![w] = "add_wr"]
    /\ UNCHANGED <<mainVars, mainpc, callVars, t, j, sharedVars, wstart, wend,
                   wi, secCount, secMax, currentMax, histVars, reads>>

\* Mutant of AddWrite: the shared count is assigned instead of added to.
AddWriteAssign(w) ==
    /\ w \in Workers
    /\ wpc[w] = "add_wr"
    /\ count' = secCount[w]
    /\ tmp' = [tmp EXCEPT ![w] = 0]
    /\ wpc' = [wpc EXCEPT ![w] = "max"]
    /\ UNCHANGED <<mainVars, mainpc, callVars, t, j, maxValue, mtx,
                   atomicCount, atomicMax, wstart, wend, wi, secCount, secMax,
                   currentMax, histVars, reads>>

\* line 44, localCount += count: the write of the sum.
AddWrite(w) ==
    /\ w \in Workers
    /\ wpc[w] = "add_wr"
    /\ count' = tmp[w] + secCount[w]
    /\ tmp' = [tmp EXCEPT ![w] = 0]
    /\ wpc' = [wpc EXCEPT ![w] = "max"]
    /\ UNCHANGED <<mainVars, mainpc, callVars, t, j, maxValue, mtx,
                   atomicCount, atomicMax, wstart, wend, wi, secCount, secMax,
                   currentMax, histVars, reads>>

\* Mutant of MaxMerge: the shared max is assigned without the comparison.
MaxMergeNoCompare(w) ==
    /\ w \in Workers
    /\ wpc[w] = "max"
    /\ maxValue' = secMax[w]
    /\ wpc' = [wpc EXCEPT ![w] = "unlock"]
    /\ UNCHANGED <<mainVars, mainpc, callVars, t, j, count, mtx, atomicCount,
                   atomicMax, wstart, wend, wi, secCount, secMax, tmp,
                   currentMax, histVars, reads>>

\* lines 45-47: if (maxValue > localMax) localMax = maxValue.
MaxMerge(w) ==
    /\ w \in Workers
    /\ wpc[w] = "max"
    /\ maxValue' = IF secMax[w] > maxValue THEN secMax[w] ELSE maxValue
    /\ wpc' = [wpc EXCEPT ![w] = "unlock"]
    /\ UNCHANGED <<mainVars, mainpc, callVars, t, j, count, mtx, atomicCount,
                   atomicMax, wstart, wend, wi, secCount, secMax, tmp,
                   currentMax, histVars, reads>>

\* line 48: the lock_guard's destructor unlocks and the thread ends.
Unlock(w) ==
    /\ w \in Workers
    /\ wpc[w] = "unlock"
    /\ mtx' = Free
    /\ wpc' = [wpc EXCEPT ![w] = "done"]
    /\ UNCHANGED <<mainVars, mainpc, callVars, t, j, count, maxValue,
                   atomicCount, atomicMax, wstart, wend, wi, secCount, secMax,
                   tmp, currentMax, histVars, reads>>

\* processSectionWithCAS, lines 75-82: one iteration of the scan loop.
CASScan(w) ==
    /\ mode = "CAS"
    /\ ScanBody(w)

\* Mutant of FetchAdd: count and max are merged in one step, as if one
\* atomic object held the pair.
FetchAddWithMax(w) ==
    /\ w \in Workers
    /\ mode = "CAS"
    /\ wpc[w] = "scan"
    /\ wi[w] >= wend[w]
    /\ atomicCount' = atomicCount + secCount[w]
    /\ atomicMax' = IF secMax[w] > atomicMax THEN secMax[w] ELSE atomicMax
    /\ wpc' = [wpc EXCEPT ![w] = "load"]
    /\ UNCHANGED <<mainVars, mainpc, callVars, t, j, count, maxValue, mtx,
                   wstart, wend, wi, secCount, secMax, tmp,
                   currentMax, histVars, reads>>

\* Mutant of FetchAdd: a store of the local count instead of an add.
FetchAddStore(w) ==
    /\ w \in Workers
    /\ mode = "CAS"
    /\ wpc[w] = "scan"
    /\ wi[w] >= wend[w]
    /\ atomicCount' = secCount[w]
    /\ wpc' = [wpc EXCEPT ![w] = "load"]
    /\ UNCHANGED <<mainVars, mainpc, callVars, t, j, count, maxValue, mtx,
                   atomicMax, wstart, wend, wi, secCount, secMax, tmp,
                   currentMax, histVars, reads>>

\* line 83: atomicCount.fetch_add(localCount), reached when the scan ended.
FetchAdd(w) ==
    /\ w \in Workers
    /\ mode = "CAS"
    /\ wpc[w] = "scan"
    /\ wi[w] >= wend[w]
    /\ atomicCount' = atomicCount + secCount[w]
    /\ wpc' = [wpc EXCEPT ![w] = "load"]
    /\ UNCHANGED <<mainVars, mainpc, callVars, t, j, count, maxValue, mtx,
                   atomicMax, wstart, wend, wi, secCount, secMax, tmp,
                   currentMax, histVars, reads>>

\* Mutant of AfterLoad: the comparison is >= instead of >.
AfterLoadGE(w, v) == IF secMax[w] >= v THEN "cas" ELSE "done"

\* Mutant of AfterLoad: the exchange is attempted before the comparison (a
\* do-while), so every worker calls compare_exchange_weak at least once.
AfterLoadAlways(w, v) == "cas"

\* Where a lock-free worker goes once currentMax holds the value v: line 86
\* evaluates localMax > currentMax and either calls compare_exchange_weak or
\* leaves the loop, which ends the thread.
AfterLoad(w, v) == IF secMax[w] > v THEN "cas" ELSE "done"

\* line 85: int currentMax = atomicMax.load(), then the loop condition.
LoadMax(w) ==
    /\ w \in Workers
    /\ wpc[w] = "load"
    /\ wpc' = [wpc EXCEPT ![w] = AfterLoad(w, atomicMax)]
    /\ currentMax' = [currentMax EXCEPT ![w] =
                          IF AfterLoad(w, atomicMax) = "cas" THEN atomicMax ELSE INT_MIN]
    /\ UNCHANGED <<mainVars, mainpc, callVars, t, j, sharedVars, wstart, wend,
                   wi, secCount, secMax, tmp, histVars, reads>>

\* Mutant of CASSuccess: a plain store of localMax, whatever atomicMax holds.
CASBlindStore(w) ==
    /\ w \in Workers
    /\ wpc[w] = "cas"
    /\ atomicMax' = secMax[w]
    /\ casTries' = [casTries EXCEPT ![w] = Bump(@)]
    /\ currentMax' = [currentMax EXCEPT ![w] = INT_MIN]
    /\ wpc' = [wpc EXCEPT ![w] = "done"]
    /\ UNCHANGED <<mainVars, mainpc, callVars, t, j, count, maxValue, mtx,
                   atomicCount, wstart, wend, wi, secCount, secMax, tmp,
                   acq, casFails, reads>>

\* line 86: compare_exchange_weak finds atomicMax == currentMax and stores
\* localMax; the loop and the thread end.
CASSuccess(w) ==
    /\ w \in Workers
    /\ wpc[w] = "cas"
    /\ atomicMax = currentMax[w]
    /\ atomicMax' = secMax[w]
    /\ casTries' = [casTries EXCEPT ![w] = Bump(@)]
    /\ currentMax' = [currentMax EXCEPT ![w] = INT_MIN]
    /\ wpc' = [wpc EXCEPT ![w] = "done"]
    /\ UNCHANGED <<mainVars, mainpc, callVars, t, j, count, maxValue, mtx,
                   atomicCount, wstart, wend, wi, secCount, secMax, tmp,
                   acq, casFails, reads>>

\* Mutant of CASFail: the expected value is a copy that the failed call
\* updates and the loop body does not reload currentMax.
CASFailNoReload(w) ==
    /\ w \in Workers
    /\ wpc[w] = "cas"
    /\ atomicMax # currentMax[w]
    /\ casTries' = [casTries EXCEPT ![w] = Bump(@)]
    /\ casFails' = [casFails EXCEPT ![w] = IF @ < MaxThreads THEN @ + 1 ELSE @]
    /\ UNCHANGED <<mainVars, mainpc, callVars, t, j, sharedVars, workerVars,
                   acq, reads>>

\* line 86: compare_exchange_weak finds atomicMax != currentMax, copies
\* atomicMax into currentMax and returns false.
CASFail(w) ==
    /\ w \in Workers
    /\ wpc[w] = "cas"
    /\ atomicMax # currentMax[w]
    /\ currentMax' = [currentMax EXCEPT ![w] = atomicMax]
    /\ casTries' = [casTries EXCEPT ![w] = Bump(@)]
    /\ casFails' = [casFails EXCEPT ![w] = IF @ < MaxThreads THEN @ + 1 ELSE @]
    /\ wpc' = [wpc EXCEPT ![w] = "reload"]
    /\ UNCHANGED <<mainVars, mainpc, callVars, t, j, sharedVars, wstart, wend,
                   wi, secCount, secMax, tmp, acq, reads>>

\* line 86: compare_exchange_weak fails spuriously although
\* atomicMax == currentMax; nothing is stored and it returns false.
CASSpurious(w) ==
    /\ w \in Workers
    /\ wpc[w] = "cas"
    /\ atomicMax = currentMax[w]
    /\ casTries' = [casTries EXCEPT ![w] = Bump(@)]
    /\ wpc' = [wpc EXCEPT ![w] = "reload"]
    /\ UNCHANGED <<mainVars, mainpc, callVars, t, j, sharedVars, wstart, wend,
                   wi, secCount, secMax, tmp, currentMax, acq, casFails, reads>>

\* line 87: currentMax = atomicMax.load(), then the loop condition.
Reload(w) ==
    /\ w \in Workers
    /\ wpc[w] = "reload"
    /\ wpc' = [wpc EXCEPT ![w] = AfterLoad(w, atomicMax)]
    /\ currentMax' = [currentMax EXCEPT ![w] =
                          IF AfterLoad(w, atomicMax) = "cas" THEN atomicMax ELSE INT_MIN]
    /\ UNCHANGED <<mainVars, mainpc, callVars, t, j, sharedVars, wstart, wend,
                   wi, secCount, secMax, tmp, histVars, reads>>

Tids == 0..(MaxThreads - 1)

Next ==
    \/ Generate
    \/ LinearRun
    \/ MutexEntry
    \/ CASEntry
    \/ Spawn
    \/ Join
    \/ MutexReturn
    \/ CASReturn
    \/ PrintRow
    \/ \E w \in Tids : MutexScan(w)
    \/ \E w \in Tids : Lock(w)
    \/ \E w \in Tids : AddRead(w)
    \/ \E w \in Tids : AddWrite(w)
    \/ \E w \in Tids : MaxMerge(w)
    \/ \E w \in Tids : Unlock(w)
    \/ \E w \in Tids : CASScan(w)
    \/ \E w \in Tids : FetchAdd(w)
    \/ \E w \in Tids : LoadMax(w)
    \/ \E w \in Tids : CASSuccess(w)
    \/ \E w \in Tids : CASFail(w)
    \/ \E w \in Tids : CASSpurious(w)
    \/ \E w \in Tids : Reload(w)

Spec == Init /\ [][Next]_vars

----------------------------------------------------------------------------
(* The index arithmetic of the parallel reducers on main's own lists.  The  *)
(* dataset is not materialised: its length is configSizes[sizeIdx], every  *)
(* element counts as a multiple of 5 (the greatest count a scan can reach), *)
(* and each worker's scan and merge is one step, workers in index order.    *)

\* <climits>: the greatest int.
INT_MAX == 2147483647

\* main, lines 115-116: the lists as written.
configSizes == <<10000, 1000000, 100000000, 2000000000>>
configThreads == <<8, 16, 32, 64, 128, 256>>

\* data.size() of the dataset of the current size.
ConfigLen == configSizes[sizeIdx]

\* main, lines 122-126.
CfgGenerate ==
    /\ mainpc = "gen"
    /\ mainpc' = "call"
    /\ mode' = "Linear"
    /\ UNCHANGED <<sizeIdx, data, tIdx, out, lastResult, callVars, t, j,
                   sharedVars, workerVars, histVars, reads>>

\* linearExecution, lines 19-28, on ConfigLen multiples of 5.
CfgLinear ==
    /\ mainpc = "call"
    /\ mode = "Linear"
    /\ count' = ConfigLen
    /\ reads' = ConfigLen
    /\ mainpc' = "print"
    /\ UNCHANGED <<mainVars, callVars, t, j, maxValue, mtx, atomicCount,
                   atomicMax, workerVars, histVars>>

\* parallelWithMutex, lines 52-56, and parallelWithCAS, lines 93-96.
CfgEntry ==
    /\ mainpc = "call"
    /\ mode # "Linear"
    /\ numThreads' = configThreads[tIdx]
    /\ chunkSize' = ChunkSize(ConfigLen, configThreads[tIdx])
    /\ count' = 0
    /\ atomicCount' = 0
    /\ NoThreads
    /\ mainpc' = "spawn"
    /\ UNCHANGED <<mainVars, maxValue, mtx, atomicMax>>

\* The spawn loop, lines 58-62 / 98-102.
CfgSpawn ==
    /\ mainpc = "spawn"
    /\ t < numThreads
    /\ wpc' = Extend(wpc, t, "scan")
    /\ wstart' = Extend(wstart, t, SectionStart(t, chunkSize))
    /\ wend' = Extend(wend, t, SectionEnd(t, numThreads, ConfigLen, chunkSize))
    /\ wi' = Extend(wi, t, SectionStart(t, chunkSize))
    /\ secCount' = Extend(secCount, t, 0)
    /\ t' = t + 1
    /\ mainpc' = IF t + 1 < numThreads THEN "spawn" ELSE "join"
    /\ UNCHANGED <<mainVars, callVars, j, sharedVars, secMax, tmp, currentMax,
                   histVars, reads>>

\* Worker j: the scan loop, lines 35-42 / 75-82, run to its end, then the
\* merge of its count, line 44 / line 83.
CfgWorker ==
    /\ mainpc = "join"
    /\ j < t
    /\ wi' = [wi EXCEPT ![j] = IF @ < wend[j] THEN wend[j] ELSE @]
    /\ secCount' = [secCount EXCEPT ![j] = IF wi[j] < wend[j] THEN wend[j] - wi[j] ELSE 0]
    /\ reads' = reads + (IF wi[j] < wend[j] THEN wend[j] - wi[j] ELSE 0)
    /\ IF mode = "Mutex"
       THEN /\ count' = count + (IF wi[j] < wend[j] THEN wend[j] - wi[j] ELSE 0)
            /\ UNCHANGED atomicCount
       ELSE /\ atomicCount' = atomicCount + (IF wi[j] < wend[j] THEN wend[j] - wi[j] ELSE 0)
            /\ UNCHANGED count
    /\ wpc' = [wpc EXCEPT ![j] = "done"]
    /\ j' = j + 1
    /\ UNCHANGED <<mainVars, mainpc, callVars, t, maxValue, mtx, atomicMax,
                   wstart, wend, secMax, tmp, currentMax, histVars>>

\* The reducer's return, line 69 / lines 110-112.
CfgReturn ==
    /\ mainpc = "join"
    /\ j >= t
    /\ count' = IF mode = "CAS" THEN atomicCount ELSE count
    /\ mainpc' = "print"
    /\ UNCHANGED <<mainVars, callVars, t, j, maxValue, mtx, atomicCount,
                   atomicMax, workerVars, histVars, reads>>

\* main's loops, lines 121 / 138 / 149, advance after the row is printed.
CfgAdvance ==
    /\ mainpc = "print"
    /\ IF mode = "Linear" THEN
           /\ mode' = "Mutex" /\ tIdx' = 1 /\ mainpc' = "call"
           /\ UNCHANGED sizeIdx
       ELSE IF tIdx < Len(configThreads) THEN
           /\ tIdx' = tIdx + 1 /\ mainpc' = "call"
           /\ UNCHANGED <<mode, sizeIdx>>
       ELSE IF mode = "Mutex" THEN
           /\ mode' = "CAS" /\ tIdx' = 1 /\ mainpc' = "call"
           /\ UNCHANGED sizeIdx
       ELSE IF sizeIdx < Len(configSizes) THEN
           /\ sizeIdx' = sizeIdx + 1 /\ mainpc' = "gen"
           /\ UNCHANGED <<mode, tIdx>>
       ELSE
           /\ mainpc' = "exit"
           /\ UNCHANGED <<mode, tIdx, sizeIdx>>
    /\ UNCHANGED <<data, out, lastResult, callVars, t, j, sharedVars,
                   workerVars, histVars, reads>>

CfgNext ==
    \/ CfgGenerate
    \/ CfgLinear
    \/ CfgEntry
    \/ CfgSpawn
    \/ CfgWorker
    \/ CfgReturn
    \/ CfgAdvance

ConfigSpec == Init /\ [][CfgNext]_vars

\* The orchestrating thread's steps and one worker's steps.
MainStep ==
    \/ Generate \/ LinearRun \/ MutexEntry \/ CASEntry \/ Spawn \/ Join
    \/ MutexReturn \/ CASReturn \/ PrintRow

WorkerStep(w) ==
    \/ MutexScan(w) \/ Lock(w) \/ AddRead(w) \/ AddWrite(w) \/ MaxMerge(w)
    \/ Unlock(w) \/ CASScan(w) \/ FetchAdd(w) \/ LoadMax(w) \/ CASSuccess(w)
    \/ CASFail(w) \/ CASSpurious(w) \/ Reload(w)

\* Every thread that can run is scheduled, and compare_exchange_weak does not
\* fail spuriously forever when the value it expects is there again and again.
FairSpec ==
    /\ Spec
    /\ WF_vars(MainStep)
    /\ \A w \in Tids : WF_vars(WorkerStep(w)) /\ SF_vars(CASSuccess(w))

----------------------------------------------------------------------------
(* Vocabulary of the properties. *)

\* Positions (1-based) of the elements of d that are divisible by 5.
Multiples(d) == {k \in 1..Len(d) : d[k] % 5 = 0}

\* Greatest element of a set of integers, INT_MIN for the empty set.
MaxOf(S) == IF S = {} THEN INT_MIN ELSE CHOOSE x \in S : \A y \in S : y <= x

\* Sum of f over 0..n-1.
RECURSIVE SumTo(_, _)
SumTo(f, n) == IF n = 0 THEN 0 ELSE f[n - 1] + SumTo(f, n - 1)

AllSpawned == Workers = 0..(numThreads - 1)
AllDone == AllSpawned /\ \A w \in Workers : wpc[w] = "done"
InRun(m) == mode = m /\ mainpc \in {"spawn", "join", "print"}
InCS(w) == wpc[w] \in {"add_rd", "add_wr", "max", "unlock"}
Section(w) == wstart[w]..(wend[w] - 1)

----------------------------------------------------------------------------
\* C1: whenever a reducer has returned (linearExecution, parallelWithMutex or
\* parallelWithCAS, any thread count, any interleaving), count is the number
\* of elements of the dataset divisible by 5 and maxValue the greatest of
\* them (INT_MIN if none); so the three reducers return the same pair.
C1_SameResult ==
    mainpc = "print" =>
        /\ count = Cardinality(Multiples(data))
        /\ maxValue = MaxOf({data[k] : k \in Multiples(data)})
        /\ <<count, maxValue>> = linearExecution(data)

C1_Witness ==
    /\ mainpc = "print"
    /\ mode = "CAS"
    /\ numThreads = 3
    /\ data = <<10, 3, 0>>
    /\ count = 2
    /\ maxValue = 10
    /\ \E x \in DOMAIN out : out[x] = [size |-> 3, threads |-> 3, mode |-> "Mutex"]

\* C2: the index ranges [start, end) handed to the workers are contiguous
\* from 0, pairwise disjoint, and once all T are spawned their union is
\* exactly [0, L) with the last one ending at L.
C2_Partition ==
    (InRun("Mutex") \/ InRun("CAS")) =>
    /\ Workers = 0..(t - 1)
    /\ t <= numThreads
    /\ \A w \in Workers :
        /\ wstart[w] = w * (Len(data) \div numThreads)
        /\ wstart[w] <= wend[w]
        /\ w = 0 => wstart[w] = 0
        /\ w > 0 => wstart[w] = wend[w - 1]
        /\ w < numThreads - 1 => wend[w] = wstart[w] + (Len(data) \div numThreads)
        /\ \A u \in Workers : u # w => Section(u) \cap Section(w) = {}
    /\ t = numThreads =>
        /\ UNION {Section(w) : w \in Workers} = 0..(Len(data) - 1)
        /\ wend[numThreads - 1] = Len(data)

C2_Witness ==
    /\ mainpc = "join"
    /\ numThreads = 2
    /\ Len(data) = 3
    /\ Section(0) = {0}
    /\ Section(1) = {1, 2}

\* C3: in the lock-free reducer, once all workers have completed, atomicMax
\* is the greatest of the workers' local maxima (INT_MIN when all are).
C3_MaxNotLost ==
    (InRun("CAS") /\ AllDone) =>
        atomicMax = MaxOf({secMax[w] : w \in Workers})

C3_Witness ==
    /\ InRun("CAS")
    /\ AllDone
    /\ numThreads = 3
    /\ secMax = (0 :> 10 @@ 1 :> INT_MIN @@ 2 :> 0)
    /\ casTries[0] = 2
    /\ casTries[2] >= 1

\* C4: in the lock-free reducer, once all workers have completed,
\* atomicCount is the sum of the workers' local counts.
C4_CountNotLost ==
    (InRun("CAS") /\ AllDone) =>
        atomicCount = SumTo(secCount, numThreads)

C4_Witness ==
    /\ InRun("CAS")
    /\ AllDone
    /\ numThreads = 2
    /\ secCount = (0 :> 1 @@ 1 :> 2)
    /\ atomicCount = 3

\* C5: in the lock-free reducer every worker that has entered the max-merge
\* (the load of line 85, a compare-exchange, a reload) eventually leaves the
\* retry loop and finishes.
C5_RetryTerminates ==
    \A w \in Tids :
        (InRun("CAS") /\ w \in Workers /\ wpc[w] \in {"load", "cas", "reload"})
            ~> (InRun("CAS") /\ w \in Workers /\ wpc[w] = "done")

C5_Witness ==
    /\ InRun("CAS")
    /\ AllDone
    /\ numThreads = 3
    /\ \E w \in Workers : casTries[w] = 2 /\ secMax[w] < atomicMax

\* C6: in the lock-based reducer at most one worker is inside the merge
\* critical section, a worker inside it owns the mutex, and a step of a
\* worker that changes the shared count or maxValue is taken by the worker
\* that owns the mutex.
C6_MutualExclusion ==
    [][InRun("Mutex")' =>
        /\ \A u, w \in Workers' : (InCS(u)' /\ InCS(w)') => u = w
        /\ \A w \in Workers' : InCS(w)' => mtx' = w
        /\ (mainpc' = mainpc /\ (count' # count \/ maxValue' # maxValue)) =>
              \E w \in Workers : mtx = w /\ InCS(w) /\ wpc'[w] # wpc[w]
      ]_vars

C6_Witness ==
    /\ InRun("Mutex")
    /\ numThreads = 3
    /\ AllSpawned
    /\ mtx = 1
    /\ wpc[1] = "max"
    /\ count = 1
    /\ wpc[0] = "scan" /\ wi[0] >= wend[0]
    /\ wpc[2] = "scan" /\ wi[2] >= wend[2]

\* C7: a reducer never has more than T workers, and when parallelWithMutex or
\* parallelWithCAS has returned exactly T workers were spawned, all T were
\* joined and all T have completed; the values parallelWithCAS returns are
\* those atomicCount and atomicMax hold with all workers completed.
C7_JoinBeforeReturn ==
    (InRun("Mutex") \/ InRun("CAS")) =>
        /\ Cardinality(Workers) <= numThreads
        /\ j <= t
        /\ \A w \in Workers : w < j => wpc[w] = "done"
        /\ mainpc = "print" =>
              /\ AllDone
              /\ Cardinality(Workers) = numThreads
              /\ j = numThreads
              /\ mode = "CAS" => count = atomicCount /\ maxValue = atomicMax

C7_Witness ==
    /\ InRun("CAS")
    /\ mainpc = "print"
    /\ numThreads = 3
    /\ Len(data) = 3
    /\ count = 3

\* C8: for the empty dataset every reducer returns count = 0 and
\* maxValue = INT_MIN, no element is read or compared and every worker's
\* section is empty.
C8_EmptyDataset ==
    (Len(data) = 0 /\ mainpc \in {"spawn", "join", "print"}) =>
        /\ reads = 0
        /\ mode # "Linear" =>
              \A w \in Workers : Section(w) = {} /\ wi[w] = 0 /\ secCount[w] = 0
                                 /\ secMax[w] = INT_MIN
        /\ mainpc = "print" => count = 0 /\ maxValue = INT_MIN

C8_Witness ==
    /\ Len(data) = 0
    /\ mainpc = "print"
    /\ mode = "CAS"
    /\ numThreads = 3
    /\ AllDone

\* C9: a lock-free worker whose local max does not exceed the shared max when
\* it loads it (line 85) finishes by that step, with no compare-exchange
\* attempted; a finished worker takes no further step; and atomicMax is
\* changed by a worker only through a successful compare-exchange.
C9_NoExchange ==
    [][InRun("CAS") =>
        \A w \in Workers :
            /\ (wpc[w] = "load" /\ wpc'[w] # "load" /\ secMax[w] <= atomicMax) =>
                  /\ wpc'[w] = "done"
                  /\ casTries'[w] = 0
                  /\ atomicMax' = atomicMax
            /\ wpc[w] = "done" =>
                  wpc'[w] = "done" /\ casTries'[w] = casTries[w]
            /\ (wpc[w] = "done" /\ atomicMax' # atomicMax) =>
                  \E u \in Workers \ {w} :
                      wpc[u] = "cas" /\ wpc'[u] = "done" /\ atomicMax' = secMax[u]
      ]_vars

C9_Witness ==
    /\ InRun("CAS")
    /\ AllDone
    /\ numThreads = 3
    /\ secMax[0] = 0
    /\ casTries[0] = 0
    /\ secMax[1] = 10
    /\ secMax[2] = 0
    /\ casTries[2] = 1
    /\ atomicMax = 10

\* C10: in the lock-based reducer a worker acquires the mutex once, after its
\* scan has covered its whole section, reads no element while it owns the
\* mutex, has released it when it has finished; a returned invocation has
\* made exactly T acquisitions and left the mutex free.
C10_OneAcquisition ==
    InRun("Mutex") =>
        /\ \A w \in Workers :
            /\ acq[w] <= 1
            /\ acq[w] = 1 <=> (InCS(w) \/ wpc[w] = "done")
            /\ mtx = w => InCS(w)
            /\ (InCS(w) \/ wpc[w] = "done") => wi[w] = wend[w]
        /\ mainpc = "print" =>
              /\ SumTo(acq, numThreads) = numThreads
              /\ mtx = Free
              /\ reads = Len(data)

C10_Witness ==
    /\ InRun("Mutex")
    /\ mainpc = "print"
    /\ numThreads = 3
    /\ Len(data) = 3
    /\ SumTo(acq, 3) = 3

\* C11: for a dataset of one element x every reducer, for every thread
\* count, returns (1, x) when x is divisible by 5 and (0, INT_MIN) when it is
\* not; for every dataset the returned count is 0 exactly when the returned
\* maxValue is INT_MIN.
C11_SingleElement ==
    mainpc = "print" =>
        /\ Len(data) = 1 =>
              IF data[1] % 5 = 0
              THEN count = 1 /\ maxValue = data[1]
              ELSE count = 0 /\ maxValue = INT_MIN
        /\ count = 0 <=> maxValue = INT_MIN

C11_Witness ==
    /\ mainpc = "print"
    /\ mode = "CAS"
    /\ numThreads = 3
    /\ chunkSize = 0
    /\ data = <<10>>
    /\ AllDone
    /\ Section(0) = {} /\ Section(1) = {} /\ Section(2) = {0}
    /\ count = 1
    /\ maxValue = 10

\* C13: no reducer and no worker writes the dataset: from its generation to
\* the next generation no step changes its length or any of its elements.
C13_DatasetReadOnly ==
    [][mainpc # "gen" => data' = data]_vars

C13_Witness ==
    /\ mainpc = "print"
    /\ mode = "CAS"
    /\ numThreads = 3
    /\ AllDone
    /\ reads = 3
    /\ data = <<10, 3, 0>>
    /\ Len(out) = 3 * (2 * MaxThreads + 1) + 2 * MaxThreads

\* C15: within an invocation of a parallel reducer the shared max never
\* decreases; a successful compare-exchange stores a strictly greater value,
\* the worker's local max; a change of the lock-based maxValue is to the
\* strictly greater local max of the worker at its merge; and the shared max
\* is INT_MIN or the local max of a worker that has merged.
C15_MaxMonotonic ==
    [][/\ (InRun("CAS") /\ InRun("CAS")') =>
            /\ atomicMax' >= atomicMax
            /\ \A w \in Workers :
                  (wpc[w] = "cas" /\ wpc'[w] = "done") =>
                      atomicMax' > atomicMax /\ atomicMax' = secMax[w]
            /\ \/ atomicMax' = INT_MIN
               \/ \E w \in Workers' : wpc'[w] = "done" /\ secMax'[w] = atomicMax'
       /\ (InRun("Mutex") /\ InRun("Mutex")') =>
            /\ maxValue' >= maxValue
            /\ maxValue' # maxValue =>
                  /\ maxValue' > maxValue
                  /\ \E w \in Workers : wpc[w] = "max" /\ mtx = w
                                        /\ maxValue' = secMax[w]
            /\ \/ maxValue' = INT_MIN
               \/ \E w \in Workers' : wpc'[w] \in {"unlock", "done"}
                                      /\ secMax'[w] = maxValue'
      ]_vars

C15_Witness ==
    /\ InRun("CAS")
    /\ numThreads = 3
    /\ AllSpawned
    /\ atomicMax = 0
    /\ wpc[0] = "done" /\ secMax[0] = 0 /\ casTries[0] = 1
    /\ wpc[2] = "cas" /\ secMax[2] = 10 /\ currentMax[2] = 0

\* C16: in the lock-free reducer no step changes both atomicCount and
\* atomicMax (the two are merged by separate atomic steps), and with all
\* workers completed the two hold the sum of the local counts and the
\* greatest local max; before that atomicCount can include a worker's count
\* while atomicMax is still below that worker's local max (the witness).
C16_NoCrossFieldAtomicity ==
    [][(InRun("CAS") /\ InRun("CAS")') =>
          /\ ~(atomicCount' # atomicCount /\ atomicMax' # atomicMax)
          /\ AllDone' =>
                /\ atomicCount' = SumTo(secCount', numThreads')
                /\ atomicMax' = MaxOf({secMax'[w] : w \in Workers'})
      ]_vars

C16_Witness ==
    /\ InRun("CAS")
    /\ numThreads = 2
    /\ AllSpawned
    /\ wpc[1] = "load"
    /\ secCount[1] = 1
    /\ secMax[1] = 10
    /\ wpc[0] = "scan"
    /\ atomicCount = 1
    /\ atomicMax = INT_MIN

\* C17: in the lock-based reducer, whenever no worker owns the mutex, the
\* shared count and maxValue are the number and the greatest (INT_MIN if
\* none) of the multiples of 5 in the sections of the workers that have
\* completed their merge.
MergedMultiples ==
    {k \in Multiples(data) :
        \E w \in Workers : wpc[w] = "done" /\ (k - 1) \in Section(w)}

C17_MergedAggregate ==
    (InRun("Mutex") /\ mtx = Free) =>
        /\ count = Cardinality(MergedMultiples)
        /\ maxValue = MaxOf({data[k] : k \in MergedMultiples})

C17_Witness ==
    /\ InRun("Mutex")
    /\ numThreads = 3
    /\ AllSpawned
    /\ mtx = Free
    /\ data = <<10, 0, 10>>
    /\ wpc[1] = "done"
    /\ wpc[0] = "scan"
    /\ wpc[2] = "scan"
    /\ count = 1
    /\ maxValue = 0

\* C14: the rows are printed in the order of the matrix: for each size in
\* list order one Linear row, one Mutex row per thread count in list order,
\* one CAS row per thread count in list order; the run in progress is the
\* one the next row belongs to, on a dataset of the current size; no worker
\* of an earlier run is running when a run starts; and the driver reaches
\* its exit with all the rows printed.
RowsOfSize(n) ==
    <<[size |-> n, threads |-> 0, mode |-> "Linear"]>>
    \o [k \in 1..Len(threadCounts) |->
           [size |-> n, threads |-> threadCounts[k], mode |-> "Mutex"]]
    \o [k \in 1..Len(threadCounts) |->
           [size |-> n, threads |-> threadCounts[k], mode |-> "CAS"]]

RECURSIVE RowsUpTo(_)
RowsUpTo(k) == IF k = 0 THEN <<>> ELSE RowsUpTo(k - 1) \o RowsOfSize(matrixSizes[k])

ExpectedRows == RowsUpTo(Len(matrixSizes))

DriverInOrder ==
    /\ Len(out) <= Len(ExpectedRows)
    /\ out = SubSeq(ExpectedRows, 1, Len(out))
    /\ mainpc \in {"call", "spawn", "join", "print"} =>
          /\ Len(data) = matrixSizes[sizeIdx]
          /\ ExpectedRows[Len(out) + 1] =
                [size |-> Len(data),
                 threads |-> IF mode = "Linear" THEN 0 ELSE threadCounts[tIdx],
                 mode |-> mode]
    /\ mainpc \in {"spawn", "join", "print"} /\ mode # "Linear" =>
          numThreads = threadCounts[tIdx]
    /\ mainpc \in {"gen", "call", "exit"} =>
          \A w \in Workers : wpc[w] = "done"
    /\ mainpc = "gen" => Len(out) = (sizeIdx - 1) * (2 * Len(threadCounts) + 1)
    /\ mainpc = "exit" => out = ExpectedRows

C14_DriverMatrix ==
    /\ []DriverInOrder
    /\ <>(mainpc = "exit" /\ out = ExpectedRows)

C14_Witness ==
    /\ mainpc = "exit"
    /\ Len(out) = (MaxLen + 1) * (2 * MaxThreads + 1)
    /\ out[Len(out)] = [size |-> MaxLen, threads |-> MaxThreads, mode |-> "CAS"]
    /\ out[1] = [size |-> 0, threads |-> 0, mode |-> "Linear"]

\* C18: every invocation starts from a fresh accumulator, whatever count and
\* maxValue held from the run before: parallelWithMutex starts its workers
\* on count = 0, maxValue = INT_MIN and a free mutex, parallelWithCAS on
\* atomicCount = 0, atomicMax = INT_MIN; and every run returns the pair the
\* run before it returned on the same dataset.
C18_FreshAccumulator ==
    /\ (mainpc = "spawn" /\ t = 0 /\ mode = "Mutex") =>
          count = 0 /\ maxValue = INT_MIN /\ mtx = Free
    /\ (mainpc = "spawn" /\ t = 0 /\ mode = "CAS") =>
          atomicCount = 0 /\ atomicMax = INT_MIN
    /\ (mainpc = "print" /\ lastResult # <<>>) =>
          <<count, maxValue>> = lastResult

C18_Witness ==
    /\ mainpc = "print"
    /\ mode = "Mutex"
    /\ numThreads = 2
    /\ out[Len(out)] = [size |-> 3, threads |-> 1, mode |-> "Mutex"]
    /\ lastResult = <<2, 10>>
    /\ count = 2
    /\ maxValue = 10

\* C12 as stated: the number of compare-exchange attempts of a worker in one
\* invocation is at most the number of workers T.
C12_AttemptsBoundedByT ==
    InRun("CAS") => \A w \in Workers : casTries[w] <= numThreads

\* C12, amended: the attempts of a worker that fail because atomicMax had
\* changed are at most T - 1, each after a successful update by another
\* worker with a local max of its own (so at most one per distinct local max
\* of the finished other workers), whatever the dataset length; with its one
\* possible success that is at most T attempts that do not fail spuriously.
\* A lock-free worker that has not finished always has a step it can take,
\* whatever the other workers do.
DoneMaxima(w) ==
    {secMax[u] : u \in {x \in Workers \ {w} : wpc[x] = "done"}} \ {INT_MIN}

C12_RealFailuresBounded ==
    InRun("CAS") =>
        \A w \in Workers :
            /\ casFails[w] <= numThreads - 1
            /\ casFails[w] <= Cardinality(DoneMaxima(w))
            /\ casFails[w] <= casTries[w]
            /\ wpc[w] # "done" => ENABLED WorkerStep(w)

C12_Witness ==
    /\ InRun("CAS")
    /\ numThreads = 3
    /\ AllDone
    /\ casFails[1] = 2
    /\ casTries[1] = 2
    /\ secMax = (0 :> 0 @@ 1 :> 10 @@ 2 :> 10)

\* C19: for every configured size and thread count the values the
\* partitioning and the scan compute in int stay in [0, 2^31 - 1]: the length
\* L, chunkSize, the product t * chunkSize and the sum start + chunkSize
\* about to be computed, every start and end, every loop index and every
\* count; and the indices read, start..end-1, lie in [0, L).
IsInt(x) == 0 <= x /\ x <= INT_MAX
MulFits(a, b) == b = 0 \/ a <= INT_MAX \div b
AddFits(a, b) == a <= INT_MAX - b

C19_NoOverflow ==
    /\ IsInt(ConfigLen)
    /\ IsInt(count) /\ count <= ConfigLen
    /\ IsInt(reads) /\ reads <= ConfigLen
    /\ (mode # "Linear" /\ mainpc \in {"spawn", "join", "print"}) =>
          /\ IsInt(chunkSize)
          /\ IsInt(atomicCount) /\ atomicCount <= ConfigLen
          /\ mainpc = "spawn" =>
                /\ MulFits(t, chunkSize)
                /\ t # numThreads - 1 =>
                      AddFits(SectionStart(t, chunkSize), chunkSize)
          /\ \A w \in Workers :
                /\ IsInt(wstart[w]) /\ IsInt(wend[w])
                /\ wstart[w] <= wend[w] /\ wend[w] <= ConfigLen
                /\ wstart[w] <= wi[w] /\ wi[w] <= wend[w]
                /\ IsInt(secCount[w]) /\ secCount[w] <= wend[w] - wstart[w]

C19_Witness ==
    /\ ConfigLen = 2000000000
    /\ mode = "CAS"
    /\ mainpc = "print"
    /\ numThreads = 256
    /\ chunkSize = 7812500
    /\ wstart[255] = 1992187500
    /\ wend[255] = 2000000000
    /\ wi[255] = 2000000000
    /\ count = 2000000000

====
